---- MODULE Spec2Model ----
(***************************************************************************)
(* A model of stte-rs: the rope-backed Buffer (src/src/buffer.rs), the     *)
(* Screen's scroll projection (src/src/screen.rs) and the editor loop      *)
(* (src/src/main.rs).                                                      *)
(*                                                                         *)
(* Characters are modelled by six representatives:                         *)
(*   "a"   a printable character of terminal width 1                       *)
(*   "W"   a wide character (U+754C), terminal width 2, 3 bytes of UTF-8   *)
(*   "M"   a non-spacing mark (U+0301), terminal width 0, 2 bytes of UTF-8 *)
(*   "TAB" '\t'      "LF" '\n'      "CR" '\r'                              *)
(* The rope is a sequence of characters; ropey's line index treats LF, a   *)
(* lone CR and the pair CR LF each as one line break.                      *)
(***************************************************************************)
EXTENDS Integers, Sequences, FiniteSets, TLC

VARIABLES
    text,           \* Buffer.text: the rope, a sequence of characters
    cursor_pos,     \* Buffer.cursor_pos: a char offset
    status,         \* Buffer.status: "Clean" | "Modified" | "Saving"
    line_ending,    \* Buffer.line_ending: "LF" | "CRLF"
    file_path,      \* Buffer.file_path: "None" | "Some"
    disk,           \* the file at the path: [exists, bytes]
    scroll_offset,  \* Screen.scroll_offset
    win_height,     \* Screen.win_size.height (u16)
    pc,             \* where the caller is: "api" | "saved" | "loaded" (a
                    \* caller of the Buffer's methods), or the editor
                    \* loop's "display" | "events" | "exit"
    last_call,      \* history: the Buffer or Screen method called last
    last_effect,    \* history: what that call inserted, removed or was
                    \* answered (a sequence)
    undo,           \* history: <<text, cursor_pos>> before the insert_char
                    \* that was the last call, or the call before a
                    \* delete_char that was the last call; else <<>>
    calls,          \* history: the Buffer's methods called since the start,
                    \* where the run counts them (SpecScroll); else -1
    win_width,      \* Screen.win_size.width (u16)
    frame,          \* the terminal: what draw_line queued for each row of
                    \* the last frame drawn (a sequence of rows)
    term_log        \* the terminal: the mode changes main and CleanUp have
                    \* made, the first frame and the first read, in order

bufvars == <<text, cursor_pos, status, line_ending, file_path>>
scrvars == <<scroll_offset, win_height, win_width>>
outvars == <<frame, term_log>>
histvars == <<last_call, last_effect, undo, calls>>
vars == <<text, cursor_pos, status, line_ending, file_path, disk,
          scroll_offset, win_height, pc, last_call, last_effect, undo, calls,
          win_width, frame, term_log>>

-----------------------------------------------------------------------------
(* Bounds *)

\* Longest document the editing operations grow the rope to.
MaxLen == 3
\* Longest file content loaded at start.
MaxInitLen == 1
\* Longest document where navigation is the only call.
MaxNavLen == 5
\* Largest terminal height (Screen::new, Event::Resize).
MaxHeight == 3
\* Longest document (loaded or typed) where save is among the calls.
MaxSaveLen == 2
\* Longest document (loaded or typed) of the editor loop's runs, and the
\* line breaks of the document of blank lines those runs can also start from.
MaxProgLen == 1
MaxBlankLines == 3
\* The lines of the longest document scrolled through, the largest terminal
\* height it is shown in, and the most Buffer calls made on it.
MaxScrollLines == 20
MaxScrollHeight == 5
MaxCalls == 10
\* Largest terminal width (Screen::new, Event::Resize).
MaxWidth == 9
\* Longest document drawn.
MaxDrawLen == 2
\* Longest document where the visual column is followed.
MaxWidthLen == 3

(* Program constants *)
TAB_WIDTH == 8

Chars == {"a", "W", "TAB", "LF", "CR"}
\* With the character of no width.
AllChars == Chars \cup {"M"}
\* What KeyCode::Char(c) and KeyCode::Tab can deliver to insert_char.
KeyChars == {"a", "W", "TAB"}
LineEndings == {"LF", "CRLF"}

RECURSIVE SeqsUpTo(_, _)
SeqsUpTo(S, n) ==
    IF n = 0 THEN {<<>>}
    ELSE LET shorter == SeqsUpTo(S, n - 1)
         IN  shorter \cup {Append(s, c) : s \in shorter, c \in S}

Take(s, n) == SubSeq(s, 1, IF n < Len(s) THEN n ELSE Len(s))
Drop(s, n) == SubSeq(s, n + 1, Len(s))

-----------------------------------------------------------------------------
(* ropey: the line index of a rope *)

\* A line break ends at (1-based) position i: LF, or CR not followed by LF.
BreakEnd(t, i) ==
    \/ t[i] = "LF"
    \/ t[i] = "CR" /\ ~(i < Len(t) /\ t[i + 1] = "LF")

BreaksUpTo(t, c) == Cardinality({i \in 1..c : BreakEnd(t, i)})

len_chars(t) == Len(t)
len_lines(t) == BreaksUpTo(t, Len(t)) + 1

\* Rope::char_to_line: the line of char offset c (0..len); an offset in the
\* middle of a CR LF pair is on the line the pair ends.
char_to_line(t, c) == BreaksUpTo(t, c)

\* Rope::line_to_char: the offset of the first char of line l; l = len_lines
\* gives len_chars.
line_to_char(t, l) ==
    IF l = 0 THEN 0
    ELSE IF l >= len_lines(t) THEN Len(t)
    ELSE CHOOSE c \in 1..Len(t) : BreakEnd(t, c) /\ BreaksUpTo(t, c) = l

\* Rope::line: the chars of line y, its line break included.
line(t, y) == SubSeq(t, line_to_char(t, y) + 1, line_to_char(t, y + 1))

-----------------------------------------------------------------------------
(* LineEnding *)

as_str(le) == IF le = "LF" THEN <<"LF">> ELSE <<"CR", "LF">>
le_len(le) == IF le = "LF" THEN 1 ELSE 2

-----------------------------------------------------------------------------
(* Buffer: queries *)

\* ch.width().unwrap_or(1): control characters have no width and count 1.
unicode_width(ch) == IF ch = "W" THEN 2 ELSE IF ch = "M" THEN 0 ELSE 1

\* A variant where a tab is always TAB_WIDTH cells.
cell_width_fixed_tab(ch, col) ==
    IF ch = "TAB" THEN TAB_WIDTH ELSE unicode_width(ch)

\* The cells a character takes when it starts at visual column col.
cell_width(ch, col) ==
    IF ch = "TAB" THEN TAB_WIDTH - (col % TAB_WIDTH) ELSE unicode_width(ch)

cursor_row(t, c) == char_to_line(t, c)
get_cursor_xy(t, c) ==
    LET line_idx == char_to_line(t, c)
    IN  <<c - line_to_char(t, line_idx), line_idx>>
cursor_column(t, c) == c - line_to_char(t, cursor_row(t, c))

RECURSIVE column_width_loop(_, _, _, _)
column_width_loop(ln, idx, x, visual_width) ==
    IF idx >= x \/ idx >= Len(ln) THEN visual_width
    ELSE column_width_loop(ln, idx + 1, x,
                           visual_width + cell_width(ln[idx + 1], visual_width))

get_char_column_width(t, x, y) == column_width_loop(line(t, y), 0, x, 0)

get_visual_cursor_x(t, c) ==
    LET xy == get_cursor_xy(t, c) IN get_char_column_width(t, xy[1], xy[2])

\* A variant that tests the width before the character, not after it, and
\* so stops one character late.
RECURSIVE index_from_visual_x_loop_late(_, _, _, _)
index_from_visual_x_loop_late(ln, idx, visual_x, target_visual_x) ==
    IF idx >= Len(ln) THEN Len(ln)
    ELSE LET char_width == cell_width(ln[idx + 1], visual_x)
         IN  IF visual_x > target_visual_x THEN idx
             ELSE index_from_visual_x_loop_late(ln, idx + 1,
                                                visual_x + char_width,
                                                target_visual_x)

RECURSIVE index_from_visual_x_loop(_, _, _, _)
index_from_visual_x_loop(ln, idx, visual_x, target_visual_x) ==
    IF idx >= Len(ln) THEN Len(ln)
    ELSE LET char_width == cell_width(ln[idx + 1], visual_x)
         IN  IF visual_x + char_width > target_visual_x THEN idx
             ELSE index_from_visual_x_loop(ln, idx + 1, visual_x + char_width,
                                           target_visual_x)

get_char_index_from_visual_x(t, l, target_visual_x) ==
    index_from_visual_x_loop(line(t, l), 0, 0, target_visual_x)

-----------------------------------------------------------------------------
(* Buffer: navigation, as the cursor each movement leaves *)

\* A variant without the guard at offset 0.
left_cursor_unclamped(t, c) == c - 1

left_cursor(t, c) == IF c > 0 THEN c - 1 ELSE c

right_cursor(t, c) == IF c < len_chars(t) THEN c + 1 ELSE c

up_cursor(t, c) ==
    LET xy == get_cursor_xy(t, c)
        cursor_x == xy[1]
        cursor_y == xy[2]
    IN  IF cursor_y > 0
        THEN LET target_y == cursor_y - 1
                 visual_x == get_char_column_width(t, cursor_x, cursor_y)
                 new_x == get_char_index_from_visual_x(t, target_y, visual_x)
             IN  line_to_char(t, target_y) + new_x
        ELSE c

down_cursor(t, c) ==
    LET xy == get_cursor_xy(t, c)
        cursor_x == xy[1]
        cursor_y == xy[2]
    IN  IF cursor_y < len_lines(t) - 1
        THEN LET target_y == cursor_y + 1
                 visual_x == get_char_column_width(t, cursor_x, cursor_y)
                 new_x == get_char_index_from_visual_x(t, target_y, visual_x)
             IN  line_to_char(t, target_y) + new_x
        ELSE c

-----------------------------------------------------------------------------
(* Buffer: editing, as the rope and the cursor each edit leaves *)

\* A variant that inserts at the end of the rope.
rope_insert_at_end(t, c, s) == t \o s

\* Rope::insert_char / Rope::insert at char offset c.
rope_insert(t, c, s) == Take(t, c) \o s \o Drop(t, c)
\* Rope::remove(from..to).
rope_remove(t, from, to) == Take(t, from) \o Drop(t, to)
\* Rope::slice(from..to).
rope_slice(t, from, to) == SubSeq(t, from + 1, to)

saturating_sub(a, b) == IF a > b THEN a - b ELSE 0

\* A variant that takes as many characters as the line ending has, whatever
\* they are.
delete_start_unit(t, c, le) == saturating_sub(c, le_len(le))

\* A variant that never takes the line ending as a unit.
delete_start_single(t, c, le) == c - 1

\* delete_char: where the removed range starts (cursor_pos > 0).
delete_start(t, c, le) ==
    LET start == saturating_sub(c, le_len(le))
    IN  IF rope_slice(t, start, c) = as_str(le) THEN start ELSE c - 1

-----------------------------------------------------------------------------
(* Files: Rope::write_to and Rope::from_reader over UTF-8 bytes *)

utf8(ch) ==
    CASE ch = "a"   -> <<97>>
      [] ch = "W"   -> <<231, 149, 140>>
      [] ch = "M"   -> <<204, 129>>
      [] ch = "TAB" -> <<9>>
      [] ch = "LF"  -> <<10>>
      [] ch = "CR"  -> <<13>>

\* A variant that writes every CR LF as LF.
RECURSIVE write_to_normalized(_)
write_to_normalized(t) ==
    IF t = <<>> THEN <<>>
    ELSE IF Len(t) >= 2 /\ t[1] = "CR" /\ t[2] = "LF"
         THEN write_to_normalized(Tail(t))
    ELSE utf8(Head(t)) \o write_to_normalized(Tail(t))

RECURSIVE write_to(_)
write_to(t) == IF t = <<>> THEN <<>> ELSE utf8(Head(t)) \o write_to(Tail(t))

\* Rope::from_reader: [ok, text]; bytes that are not UTF-8 are an error.
RECURSIVE from_reader(_)
from_reader(b) ==
    IF b = <<>> THEN [ok |-> TRUE, text |-> <<>>]
    ELSE LET one == \E ch \in AllChars : utf8(ch) = Take(b, 1)
             two == Len(b) >= 2 /\ \E ch \in AllChars : utf8(ch) = Take(b, 2)
             three == Len(b) >= 3 /\ \E ch \in AllChars : utf8(ch) = Take(b, 3)
             n == IF one THEN 1 ELSE IF two THEN 2 ELSE 3
         IN  IF ~(one \/ two \/ three) THEN [ok |-> FALSE, text |-> <<>>]
             ELSE LET ch == CHOOSE x \in AllChars : utf8(x) = Take(b, n)
                      rest == from_reader(Drop(b, n))
                  IN  [ok |-> rest.ok,
                       text |-> IF rest.ok THEN <<ch>> \o rest.text ELSE <<>>]

NoFile == [exists |-> FALSE, bytes |-> <<>>]
FileOf(b) == [exists |-> TRUE, bytes |-> b]

\* Buffer::from_path: what File::open can answer for the file d.
OpenResults(d) ==
    IF d.exists THEN {"Ok", "PermissionDenied", "Other"} ELSE {"NotFound"}

\* Buffer::from_path: [ok, text], the Buffer's rope when it is Ok.
from_path(d, open) ==
    IF open = "Ok" THEN from_reader(d.bytes)
    ELSE IF open = "NotFound" THEN [ok |-> TRUE, text |-> <<>>]
    ELSE [ok |-> FALSE, text |-> <<>>]

\* What save can answer: NoPath without a file_path; else what File::create
\* and the write answer.
SaveResults(fp, t) ==
    IF fp = "None" THEN {"NoPath"}
    ELSE {"Ok", "PermissionDenied", "Other"}
             \cup (IF t = <<>> THEN {} ELSE {"WriteFailed"})

\* How many bytes a write that fails can have written before it fails.
WrittenBefore(t, result) ==
    IF result = "WriteFailed" THEN 0..(Len(write_to(t)) - 1) ELSE {0}

\* Buffer::save: the status it leaves.
save_status(fp, result) ==
    IF fp = "Some" /\ result = "Ok" THEN "Clean" ELSE "Saving"

\* Buffer::save: the file it leaves; a failed write leaves the first n bytes.
save_disk(fp, d, t, result, n) ==
    IF fp = "None" THEN d
    ELSE IF result = "Ok" THEN FileOf(write_to(t))
    ELSE IF result = "WriteFailed" THEN FileOf(Take(write_to(t), n))
    ELSE d

-----------------------------------------------------------------------------
(* Buffer: the methods, as steps over the Buffer's fields (and the file) *)

move_cursor_left ==
    /\ cursor_pos' = left_cursor(text, cursor_pos)
    /\ UNCHANGED <<text, status, line_ending, file_path>>

move_cursor_right ==
    /\ cursor_pos' = right_cursor(text, cursor_pos)
    /\ UNCHANGED <<text, status, line_ending, file_path>>

move_cursor_up ==
    /\ cursor_pos' = up_cursor(text, cursor_pos)
    /\ UNCHANGED <<text, status, line_ending, file_path>>

move_cursor_down ==
    /\ cursor_pos' = down_cursor(text, cursor_pos)
    /\ UNCHANGED <<text, status, line_ending, file_path>>

insert_char(c) ==
    /\ text' = rope_insert(text, cursor_pos, <<c>>)
    /\ cursor_pos' = cursor_pos + 1
    /\ status' = "Modified"
    /\ UNCHANGED <<line_ending, file_path>>

\* A variant that sets the status at offset 0 too.
delete_char_marks(term_ok) ==
    IF cursor_pos > 0
    THEN LET start == delete_start(text, cursor_pos, line_ending)
         IN  /\ text' = rope_remove(text, start, cursor_pos)
             /\ cursor_pos' = start
             /\ status' = IF term_ok THEN "Modified" ELSE status
             /\ UNCHANGED <<line_ending, file_path>>
    ELSE /\ status' = "Modified"
         /\ UNCHANGED <<text, cursor_pos, line_ending, file_path>>

\* term_ok: whether the terminal clear (execute!) succeeds; when it fails the
\* method returns the error before it sets the status.
delete_char(term_ok) ==
    IF cursor_pos > 0
    THEN LET start == delete_start(text, cursor_pos, line_ending)
         IN  /\ text' = rope_remove(text, start, cursor_pos)
             /\ cursor_pos' = start
             /\ status' = IF term_ok THEN "Modified" ELSE status
             /\ UNCHANGED <<line_ending, file_path>>
    ELSE UNCHANGED <<text, cursor_pos, status, line_ending, file_path>>

insert_newline ==
    /\ text' = rope_insert(text, cursor_pos, as_str(line_ending))
    /\ cursor_pos' = cursor_pos + le_len(line_ending)
    /\ UNCHANGED <<status, line_ending, file_path>>

save(result, n) ==
    /\ status' = save_status(file_path, result)
    /\ disk' = save_disk(file_path, disk, text, result, n)
    /\ UNCHANGED <<text, cursor_pos, line_ending, file_path>>

-----------------------------------------------------------------------------
(* The Buffer as its callers build it (main) *)

FilesUpTo(n) == {NoFile} \cup {FileOf(write_to(d)) : d \in SeqsUpTo(Chars, n)}

\* A file that is not UTF-8, and so cannot be loaded.
BadFile == FileOf(<<255>>)

\* main: Buffer::new(None) without an argument; with one, Buffer::from_path,
\* and Buffer::new(Some(path)) when from_path fails.
BufferOfMain(files) ==
    /\ cursor_pos = 0
    /\ status = "Clean"
    /\ line_ending \in LineEndings
    /\ \/ /\ file_path = "None"
          /\ disk = NoFile
          /\ text = <<>>
       \/ /\ file_path = "Some"
          /\ disk \in files \cup {BadFile}
          /\ \E open \in OpenResults(disk) :
                /\ open # "Ok" => disk \in {NoFile, BadFile}
                /\ text = from_path(disk, open).text

-----------------------------------------------------------------------------
(* History: the call a step makes and its effect *)

NoHistory ==
    last_call = "new" /\ last_effect = <<>> /\ undo = <<>> /\ calls = -1

\* The methods of the Buffer that the keys call.
BufferMethods ==
    {"move_cursor_left", "move_cursor_right", "move_cursor_up",
     "move_cursor_down", "insert_char", "insert_newline", "delete_char",
     "save"}

Called(method, effect) ==
    /\ last_call' = method
    /\ last_effect' = effect
    /\ undo' = IF method = "insert_char" THEN <<text, cursor_pos>>
                ELSE IF method = "delete_char" /\ last_call = "insert_char"
                     THEN undo
                ELSE <<>>
    /\ calls' = IF calls >= 0 /\ method \in BufferMethods THEN calls + 1
                 ELSE calls

\* The characters delete_char removes.
Removed ==
    IF cursor_pos > 0
    THEN rope_slice(text, delete_start(text, cursor_pos, line_ending),
                    cursor_pos)
    ELSE <<>>

-----------------------------------------------------------------------------
(* A Buffer under any sequence of calls of its methods.  max_len is the    *)
(* length the insertions stop at.                                          *)

InitCalls(files) ==
    /\ BufferOfMain(files)
    /\ scroll_offset = 0
    /\ win_height = MaxHeight
    /\ win_width = MaxWidth
    /\ pc = "api"
    /\ NoHistory
    /\ frame = <<>>
    /\ term_log = <<>>

CallLeft ==
    /\ pc = "api"
    /\ move_cursor_left
    /\ Called("move_cursor_left", <<>>)
    /\ UNCHANGED <<disk, scrvars, pc, outvars>>
CallRight ==
    /\ pc = "api"
    /\ move_cursor_right
    /\ Called("move_cursor_right", <<>>)
    /\ UNCHANGED <<disk, scrvars, pc, outvars>>
CallUp ==
    /\ pc = "api"
    /\ move_cursor_up
    /\ Called("move_cursor_up", <<>>)
    /\ UNCHANGED <<disk, scrvars, pc, outvars>>
CallDown ==
    /\ pc = "api"
    /\ move_cursor_down
    /\ Called("move_cursor_down", <<>>)
    /\ UNCHANGED <<disk, scrvars, pc, outvars>>
CallInsertChar(max_len) ==
    \E c \in KeyChars :
        /\ pc = "api"
        /\ Len(text) + 1 <= max_len
        /\ insert_char(c)
        /\ Called("insert_char", <<c>>)
        /\ UNCHANGED <<disk, scrvars, pc, outvars>>
CallInsertNewline(max_len) ==
    /\ pc = "api"
    /\ Len(text) + le_len(line_ending) <= max_len
    /\ insert_newline
    /\ Called("insert_newline", as_str(line_ending))
    /\ UNCHANGED <<disk, scrvars, pc, outvars>>
CallDeleteChar ==
    \E term_ok \in BOOLEAN :
        /\ pc = "api"
        /\ delete_char(term_ok)
        /\ Called("delete_char", Removed)
        /\ UNCHANGED <<disk, scrvars, pc, outvars>>

\* save, as the last call on this Buffer.
CallSave ==
    \E result \in SaveResults(file_path, text) :
        \E n \in WrittenBefore(text, result) :
            /\ pc = "api"
            /\ save(result, n)
            /\ Called("save", <<result>>)
            /\ pc' = "saved"
            /\ UNCHANGED <<scrvars, outvars>>

\* Buffer::from_path on the path just saved to: a new Buffer (main's
\* Buffer::new(Some(path)) when it fails).
CallFromPath ==
    \E open \in OpenResults(disk) :
        LET loaded == from_path(disk, open)
        IN  /\ pc = "saved"
            /\ file_path = "Some"
            /\ text' = loaded.text
            /\ cursor_pos' = 0
            /\ status' = "Clean"
            /\ Called("from_path",
                      IF loaded.ok THEN <<open>> ELSE <<open, "Err">>)
            /\ pc' = "loaded"
            /\ UNCHANGED <<line_ending, file_path, disk, scrvars, outvars>>

\* SpecBuffer: navigation and editing.
InitBuffer == InitCalls(FilesUpTo(MaxInitLen))

NextBuffer ==
    \/ CallLeft
    \/ CallRight
    \/ CallUp
    \/ CallDown
    \/ CallInsertChar(MaxLen)
    \/ CallInsertNewline(MaxLen)
    \/ CallDeleteChar

SpecBuffer == InitBuffer /\ [][NextBuffer]_vars

\* SpecNav: navigation alone, over every loaded document.
InitNav ==
    /\ text \in SeqsUpTo(Chars, MaxNavLen)
    /\ disk = FileOf(write_to(text))
    /\ file_path = "Some"
    /\ cursor_pos = 0
    /\ status = "Clean"
    /\ line_ending \in LineEndings
    /\ scroll_offset = 0
    /\ win_height = MaxHeight
    /\ win_width = MaxWidth
    /\ pc = "api"
    /\ NoHistory
    /\ frame = <<>>
    /\ term_log = <<>>

NextNav ==
    \/ CallLeft
    \/ CallRight
    \/ CallUp
    \/ CallDown

SpecNav == InitNav /\ [][NextNav]_vars

\* SpecWidth: navigation alone, over every loaded document that can also
\* hold a character of no width.
InitWidth ==
    /\ text \in SeqsUpTo(AllChars, MaxWidthLen)
    /\ disk = FileOf(write_to(text))
    /\ file_path = "Some"
    /\ cursor_pos = 0
    /\ status = "Clean"
    /\ line_ending \in LineEndings
    /\ scroll_offset = 0
    /\ win_height = MaxHeight
    /\ win_width = MaxWidth
    /\ pc = "api"
    /\ NoHistory
    /\ frame = <<>>
    /\ term_log = <<>>

NextWidth ==
    \/ CallLeft
    \/ CallRight
    \/ CallUp
    \/ CallDown

SpecWidth == InitWidth /\ [][NextWidth]_vars

\* SpecSave: navigation and editing, then save, then a load of the path.
InitSave == InitCalls(FilesUpTo(MaxInitLen))

NextSave ==
    \/ CallLeft
    \/ CallRight
    \/ CallUp
    \/ CallDown
    \/ CallInsertChar(MaxSaveLen)
    \/ CallInsertNewline(MaxSaveLen)
    \/ CallDeleteChar
    \/ CallSave
    \/ CallFromPath

SpecSave == InitSave /\ [][NextSave]_vars

-----------------------------------------------------------------------------
(* Screen *)

Heights == 0..MaxHeight

\* A variant that scrolls down one row short.
update_scroll_offset_short(offset, row, height) ==
    LET viewport_height == saturating_sub(height, 1)
    IN  IF row < offset THEN row
        ELSE IF row >= offset + viewport_height
             THEN saturating_sub(row, viewport_height)
        ELSE offset

\* A variant that puts the cursor's row at the top whenever it scrolls.
update_scroll_offset_top(offset, row, height) ==
    LET viewport_height == saturating_sub(height, 1)
    IN  IF row < offset \/ row >= offset + viewport_height THEN row
        ELSE offset

\* Screen::update_scroll_offset: the scroll_offset it leaves.
update_scroll_offset(offset, row, height) ==
    LET viewport_height == saturating_sub(height, 1)
    IN  IF row < offset THEN row
        ELSE IF row >= offset + viewport_height
             THEN saturating_sub(row, viewport_height) + 1
        ELSE offset

-----------------------------------------------------------------------------------------------------------------------------------------------------------------------------------------------------------------------------
(* SpecDraw: the rows display_buffer draws, over every loaded document,    *)
(* cursor row and terminal size.                                           *)

Widths == 0..MaxWidth

Spaces(n) == [i \in 1..n |-> "SP"]

\* Screen::draw_line: what it queues to print for the line ln, in order
\* ("SP" is a space of an expanded tab).
RECURSIVE draw_line_loop(_, _, _, _, _)
draw_line_loop(ln, idx, visual_col, width, out) ==
    IF idx >= Len(ln) \/ visual_col >= width THEN out
    ELSE LET ch == ln[idx + 1]
         IN  IF ch = "TAB"
             THEN LET spaces == TAB_WIDTH - (visual_col % TAB_WIDTH)
                  IN  draw_line_loop(ln, idx + 1, visual_col + spaces, width,
                                     out \o Spaces(spaces))
             ELSE IF ch = "LF" THEN out
             ELSE draw_line_loop(ln, idx + 1, visual_col + 1, width,
                                 Append(out, ch))

draw_line(ln, width) == draw_line_loop(ln, 0, 0, width, <<>>)

\* Screen::draw_lines: the lines from offset on, at most height - 1 of them.
draw_lines(t, offset, height, width) ==
    LET viewport_height == saturating_sub(height, 1)
        left == saturating_sub(len_lines(t), offset)
        rows == IF left < viewport_height THEN left ELSE viewport_height
    IN  [row \in 1..rows |-> draw_line(line(t, offset + row - 1), width)]

InitDraw ==
    /\ text \in SeqsUpTo(Chars, MaxDrawLen)
    /\ disk = FileOf(write_to(text))
    /\ file_path = "Some"
    /\ cursor_pos = 0
    /\ status = "Clean"
    /\ line_ending \in LineEndings
    /\ scroll_offset = 0
    /\ win_height \in Heights
    /\ win_width \in Widths
    /\ pc = "api"
    /\ NoHistory
    /\ frame = <<>>
    /\ term_log = <<>>

\* Screen::display_buffer: the scroll offset, then the lines.
DisplayBuffer ==
    /\ pc = "api"
    /\ LET offset == update_scroll_offset(scroll_offset,
                                          cursor_row(text, cursor_pos),
                                          win_height)
       IN  /\ scroll_offset' = offset
           /\ frame' = draw_lines(text, offset, win_height, win_width)
    /\ Called("display_buffer", <<>>)
    /\ UNCHANGED <<bufvars, disk, win_height, win_width, pc, term_log>>

\* Screen::update_window_size.
UpdateWindowSize ==
    /\ pc = "api"
    /\ win_height' \in Heights
    /\ win_width' \in Widths
    /\ Called("update_window_size", <<>>)
    /\ UNCHANGED <<bufvars, disk, scroll_offset, pc, outvars>>

NextDraw ==
    \/ CallLeft
    \/ CallRight
    \/ CallUp
    \/ CallDown
    \/ DisplayBuffer
    \/ UpdateWindowSize

SpecDraw == InitDraw /\ [][NextDraw]_vars

-----
(* Spec: main.  The terminal is set up, the editor loop runs run after run *)
(* (run = display_buffer, then process_events on one event), and CleanUp   *)
(* is dropped when main returns or unwinds.  Each terminal write or read   *)
(* can fail (term_ok); the error leaves the loop.  The file and the        *)
(* terminal's size are there from the start, and so is the Buffer main     *)
(* loads from them; the rows drawn are followed in SpecDraw, not here.     *)

RECURSIVE BlankLines(_)
BlankLines(n) == IF n = 0 THEN <<>> ELSE <<"LF">> \o BlankLines(n - 1)

ProgRoom(n) == Len(text) + n <= MaxProgLen

\* The event ev is in the log; Logged(ev) puts it there the first time.
InLog(ev) == \E i \in 1..Len(term_log) : term_log[i] = ev
Logged(ev) == term_log' = IF InLog(ev) THEN term_log ELSE Append(term_log, ev)

Init ==
    /\ BufferOfMain(FilesUpTo(MaxProgLen)
                        \cup {FileOf(write_to(BlankLines(MaxBlankLines)))})
    /\ scroll_offset = 0
    /\ win_height \in Heights
    /\ win_width = MaxWidth
    /\ pc = "main"
    /\ NoHistory
    /\ frame = <<>>
    /\ term_log = <<>>

\* main: execute!(stdout(), EnterAlternateScreen)?
EnterAlternateScreen ==
    /\ pc = "main"
    /\ \E term_ok \in BOOLEAN :
          IF term_ok THEN pc' = "enable_raw_mode" /\ Logged("alt")
          ELSE pc' = "exit" /\ UNCHANGED term_log
    /\ UNCHANGED <<bufvars, disk, scrvars, histvars,
                   frame>>

\* main: terminal::enable_raw_mode()?
EnableRawMode ==
    /\ pc = "enable_raw_mode"
    /\ \E term_ok \in BOOLEAN :
          IF term_ok THEN pc' = "new" /\ Logged("raw")
          ELSE pc' = "exit" /\ UNCHANGED term_log
    /\ UNCHANGED <<bufvars, disk, scrvars, histvars,
                   frame>>

\* main: TextEditor::new (Screen::new panics without a terminal size), the
\* Buffer, and editor.screen.clear()?
NewEditor ==
    /\ pc = "new"
    /\ \E term_ok \in BOOLEAN : pc' = IF term_ok THEN "display" ELSE "exit"
    /\ UNCHANGED <<bufvars, disk, scrvars, histvars,
                   outvars>>

\* Screen::display_buffer: the scroll offset is updated before any drawing.
Display ==
    /\ pc = "display"
    /\ scroll_offset' =
           update_scroll_offset(scroll_offset, cursor_row(text, cursor_pos),
                                win_height)
    /\ \E term_ok \in BOOLEAN :
          IF term_ok THEN pc' = "events" /\ Logged("draw")
          ELSE pc' = "exit" /\ UNCHANGED term_log
    /\ Called("display_buffer", <<>>)
    /\ UNCHANGED <<bufvars, disk, win_height, win_width, frame>>

KeyLeft ==
    /\ pc = "events"
    /\ move_cursor_left
    /\ Called("move_cursor_left", <<>>)
    /\ pc' = "display"
    /\ Logged("read")
    /\ UNCHANGED <<disk, scrvars, frame>>

KeyRight ==
    /\ pc = "events"
    /\ move_cursor_right
    /\ Called("move_cursor_right", <<>>)
    /\ pc' = "display"
    /\ Logged("read")
    /\ UNCHANGED <<disk, scrvars, frame>>

KeyUp ==
    /\ pc = "events"
    /\ move_cursor_up
    /\ Called("move_cursor_up", <<>>)
    /\ pc' = "display"
    /\ Logged("read")
    /\ UNCHANGED <<disk, scrvars, frame>>

KeyDown ==
    /\ pc = "events"
    /\ move_cursor_down
    /\ Called("move_cursor_down", <<>>)
    /\ pc' = "display"
    /\ Logged("read")
    /\ UNCHANGED <<disk, scrvars, frame>>

\* KeyCode::Char(c) and KeyCode::Tab.
KeyChar ==
    /\ pc = "events"
    /\ \E c \in KeyChars :
          ProgRoom(1) /\ insert_char(c) /\ Called("insert_char", <<c>>)
    /\ pc' = "display"
    /\ Logged("read")
    /\ UNCHANGED <<disk, scrvars, frame>>

KeyEnter ==
    /\ pc = "events"
    /\ ProgRoom(le_len(line_ending))
    /\ insert_newline
    /\ Called("insert_newline", as_str(line_ending))
    /\ \E term_ok \in BOOLEAN : pc' = IF term_ok THEN "display" ELSE "exit"
    /\ Logged("read")
    /\ UNCHANGED <<disk, scrvars, frame>>

KeyBackspace ==
    /\ pc = "events"
    /\ \E term_ok \in BOOLEAN :
          /\ delete_char(term_ok)
          /\ pc' = IF term_ok \/ cursor_pos = 0 THEN "display" ELSE "exit"
    /\ Called("delete_char", Removed)
    /\ Logged("read")
    /\ UNCHANGED <<disk, scrvars, frame>>

\* Ctrl-S: the result of save becomes the status message either way.
KeySave ==
    /\ pc = "events"
    /\ \E result \in SaveResults(file_path, text) :
          \E n \in WrittenBefore(text, result) :
              save(result, n) /\ Called("save", <<result>>)
    /\ pc' = "display"
    /\ Logged("read")
    /\ UNCHANGED <<scrvars, frame>>

\* Event::Resize: update_window_size stores the size, then refresh.
Resize ==
    /\ pc = "events"
    /\ win_height' \in Heights
    /\ \E term_ok \in BOOLEAN : pc' = IF term_ok THEN "display" ELSE "exit"
    /\ Called("update_window_size", <<>>)
    /\ Logged("read")
    /\ UNCHANGED <<bufvars, disk, scroll_offset, win_width, frame>>

\* Any other key or event: nothing changes.
KeyOther ==
    /\ pc = "events"
    /\ pc' = "display"
    /\ Logged("read")
    /\ UNCHANGED <<bufvars, disk, scrvars, histvars,
                   frame>>

\* Ctrl-Q: process_keypress returns Ok(false) and the loop ends.
Quit ==
    /\ pc = "events"
    /\ pc' = "exit"
    /\ Logged("read")
    /\ UNCHANGED <<bufvars, disk, scrvars, histvars,
                   frame>>

\* get_events()? fails: no event is read, and the error leaves the loop.
ReadFails ==
    /\ pc = "events"
    /\ pc' = "exit"
    /\ UNCHANGED <<bufvars, disk, scrvars, histvars,
                   outvars>>

\* CleanUp::drop, when main returns or unwinds: LeaveAlternateScreen is
\* unwrapped, so when it fails drop panics before disable_raw_mode.
CleanUpDrop ==
    /\ pc = "exit"
    /\ pc' = "done"
    /\ \E leave_ok \in BOOLEAN, disable_ok \in BOOLEAN :
          term_log' =
              IF leave_ok
              THEN term_log \o <<"leave", IF disable_ok THEN "disable"
                                          ELSE "disable_failed">>
              ELSE Append(term_log, "leave_failed")
    /\ UNCHANGED <<bufvars, disk, scrvars, histvars,
                   frame>>

Next ==
    \/ EnterAlternateScreen
    \/ EnableRawMode
    \/ NewEditor
    \/ Display
    \/ KeyLeft
    \/ KeyRight
    \/ KeyUp
    \/ KeyDown
    \/ KeyChar
    \/ KeyEnter
    \/ KeyBackspace
    \/ KeySave
    \/ Resize
    \/ KeyOther
    \/ Quit
    \/ ReadFails
    \/ CleanUpDrop

Spec == Init /\ [][Next]_vars

-----------------------------------------------------------------------------
(* SpecScroll: the editor loop under the Up and Down keys, on documents of *)
(* up to MaxScrollLines (blank) lines, from the first display_buffer on.   *)

InitScroll ==
    /\ \E n \in 0..(MaxScrollLines - 1) : text = BlankLines(n)
    /\ disk = FileOf(write_to(text))
    /\ file_path = "Some"
    /\ cursor_pos = 0
    /\ status = "Clean"
    /\ line_ending \in LineEndings
    /\ scroll_offset = 0
    /\ win_height \in 0..MaxScrollHeight
    /\ win_width = MaxWidth
    /\ pc = "display"
    /\ last_call = "new"
    /\ last_effect = <<>>
    /\ undo = <<>>
    /\ calls = 0
    /\ frame = <<>>
    /\ term_log = <<"alt", "raw">>

NextScroll ==
    \/ Display
    \/ calls < MaxCalls /\ KeyUp
    \/ calls < MaxCalls /\ KeyDown

SpecScroll == InitScroll /\ [][NextScroll]_vars

-----------------------------------------------------------------------------
(* What the claims speak of, stated apart from the code's loops *)

\* The cells of a character that starts at visual column col (spec 4.1.1).
CellsOf(ch, col) ==
    IF ch = "TAB" THEN TAB_WIDTH - (col % TAB_WIDTH)
    ELSE IF ch = "W" THEN 2 ELSE IF ch = "M" THEN 0 ELSE 1

\* The visual width of the characters s, laid out from column 0.
RECURSIVE VisualWidth(_)
VisualWidth(s) ==
    IF s = <<>> THEN 0
    ELSE LET w == VisualWidth(SubSeq(s, 1, Len(s) - 1))
         IN  w + CellsOf(s[Len(s)], w)

\* Line y without its line terminator.
LineBody(t, y) ==
    LET ln == line(t, y)
        n == Len(ln)
    IN  IF n >= 2 /\ ln[n - 1] = "CR" /\ ln[n] = "LF" THEN SubSeq(ln, 1, n - 2)
        ELSE IF n >= 1 /\ ln[n] \in {"LF", "CR"} THEN SubSeq(ln, 1, n - 1)
        ELSE ln

VisualExtent(t, y) == VisualWidth(LineBody(t, y))

\* The end-of-line position of line y: just before its terminator, or the
\* end of the text on the last line.
EndOfLine(t, y) == line_to_char(t, y) + Len(LineBody(t, y))

\* Every CR is immediately followed by LF.
NoLoneCR(t) ==
    \A i \in 1..Len(t) : t[i] = "CR" => (i < Len(t) /\ t[i + 1] = "LF")

\* The cursor is between the CR and the LF of a pair.
InsideCrLf(t, c) == c > 0 /\ c < Len(t) /\ t[c] = "CR" /\ t[c + 1] = "LF"

\* The text a load of the file d gives (empty when there is none to load).
ContentOf(d) == from_path(d, IF d.exists THEN "Ok" ELSE "NotFound").text

\* The step is a vertical movement to the line target_y(y), a line that exists.
VerticalStep(call, y, target) ==
    \/ call = "move_cursor_up" /\ y > 0 /\ target = y - 1
    \/ call = "move_cursor_down" /\ y < len_lines(text) - 1 /\ target = y + 1

-----------------------------------------------------------------------------
(* C1..C10 *)

\* C1: in every state reached from an empty or loaded document by any
\* sequence of left, right, up, down, insert_char, insert_newline and
\* delete_char calls, 0 <= cursor <= char_count(text).
C1_CursorInBounds == 0 <= cursor_pos /\ cursor_pos <= len_chars(text)

\* A deletion at the end of a two-line text has left the cursor at the end.
C1_Witness ==
    /\ last_call = "delete_char"
    /\ len_chars(text) >= 2
    /\ cursor_pos = len_chars(text)
    /\ cursor_row(text, cursor_pos) >= 1

C3_ShortTargetLandsAtLineEnd ==
    [][\A target \in 0..Len(text) :
          LET y == cursor_row(text, cursor_pos)
              v == get_visual_cursor_x(text, cursor_pos)
          IN  (/\ VerticalStep(last_call', y, target)
               /\ VisualExtent(text, target) < v)
              => /\ cursor_pos' = EndOfLine(text, target)
                 /\ cursor_row(text', cursor_pos') = target]_vars

\* C4: when the cursor is not on the first (up) / last (down) line and the
\* target line's visual extent exceeds the cursor's visual column v, the
\* cursor lands on the target line at the index i with VisualWidth of the
\* first i characters <= v < VisualWidth of the first i + 1 characters.
C4_VerticalKeepsVisualColumn ==
    [][\A target \in 0..Len(text) :
          LET y == cursor_row(text, cursor_pos)
              v == get_visual_cursor_x(text, cursor_pos)
              body == LineBody(text, target)
              i == cursor_pos' - line_to_char(text, target)
          IN  (/\ VerticalStep(last_call', y, target)
               /\ VisualExtent(text, target) > v)
              => /\ 0 <= i /\ i < Len(body)
                 /\ VisualWidth(SubSeq(body, 1, i)) <= v
                 /\ VisualWidth(SubSeq(body, 1, i + 1)) > v]_vars

\* move_cursor_down has moved (the cursor is not on the last line, where
\* alone it does nothing) and landed inside the line, past a wide character.
C4_Witness ==
    /\ last_call = "move_cursor_down"
    /\ LET xy == get_cursor_xy(text, cursor_pos)
           body == LineBody(text, xy[2])
       IN  /\ xy[2] < len_lines(text) - 1
           /\ xy[1] >= 1 /\ xy[1] < Len(body)
           /\ \E k \in 1..xy[1] : body[k] = "W"

\* The effect of a delete_char step that removes the k characters before
\* the cursor.
Removes(k) ==
    /\ text' = SubSeq(text, 1, cursor_pos - k)
                   \o SubSeq(text, cursor_pos + 1, Len(text))
    /\ cursor_pos' = cursor_pos - k
    /\ len_chars(text') = len_chars(text) - k

CrLfBefore(t, c) == c >= 2 /\ t[c - 1] = "CR" /\ t[c] = "LF"

C6_NoLoneCrProduced ==
    [][/\ NoLoneCR(ContentOf(disk)) => NoLoneCR(text')
       /\ (last_call' = "insert_newline" /\ line_ending = "CRLF")
              => /\ cursor_pos' = cursor_pos + 2
                 /\ SubSeq(text', cursor_pos + 1, cursor_pos + 2)
                        = <<"CR", "LF">>]_vars

\* C7: in no reachable state is the cursor between the CR and the LF of a
\* CR LF pair.
C7_CursorNeverInsideCrLf == ~InsideCrLf(text, cursor_pos)

\* C8: every operation that changes the text leaves status = Modified; so
\* status is never Clean while the text differs from the content at the
\* last successful load or save.
C8_TextChangeSetsModified ==
    [][/\ text' # text => status' = "Modified"
       /\ status' = "Clean" => text' = ContentOf(disk')]_vars

\* C9: save on a document with a file_path ends with status = Clean when
\* the write succeeded (the file holds the text) and with status = Modified
\* when it failed; Saving is never the status after save has returned.
C9_SaveEndsCleanOrModified ==
    [][(last_call' = "save" /\ file_path = "Some")
          => status' = IF last_effect' = <<"Ok">> THEN "Clean"
                       ELSE "Modified"]_vars

\* C10: a successful save followed by a load of the same path gives a
\* document whose character sequence equals the saved document's, line
\* endings unchanged.
C10_SaveLoadRoundTrip ==
    [][(/\ last_call = "save" /\ last_effect = <<"Ok">>
        /\ last_call' = "from_path" /\ Head(last_effect') = "Ok")
          => /\ last_effect' = <<"Ok">>
             /\ text' = text]_vars

\* A text with a CR LF pair has been saved and loaded again.
C10_Witness ==
    /\ last_call = "from_path"
    /\ last_effect = <<"Ok">>
    /\ disk = FileOf(<<13, 10>>)
    /\ text = <<"CR", "LF">>

-----------------------------------------------------------------------------
(* C11..C20 *)

\* C11: insert_char(c) in any state inserts exactly c at the cursor: the
\* new text is old[0..cursor) + c + old[cursor..), char_count and cursor
\* each increase by exactly 1, and status = Modified.
C11_InsertCharAtCursor ==
    [][last_call' = "insert_char"
          => \E c \in KeyChars :
                /\ last_effect' = <<c>>
                /\ text' = SubSeq(text, 1, cursor_pos) \o <<c>>
                               \o SubSeq(text, cursor_pos + 1, Len(text))
                /\ len_chars(text') = len_chars(text) + 1
                /\ cursor_pos' = cursor_pos + 1
                /\ status' = "Modified"]_vars

\* insert_char has inserted between two characters, not at either end.
C11_Witness ==
    /\ last_call = "insert_char"
    /\ undo # <<>>
    /\ undo[2] >= 1 /\ undo[2] < Len(undo[1])
    /\ cursor_pos = undo[2] + 1
    /\ status = "Modified"

\* C12: after insert_newline in any reachable state, line_count increases
\* by exactly 1 and cursor increases by len(line_ending) (1 for LF, 2 for
\* CRLF).
C12_NewlineAddsOneLine ==
    [][last_call' = "insert_newline"
          => /\ len_lines(text') = len_lines(text) + 1
             /\ cursor_pos' = cursor_pos
                                  + (IF line_ending = "LF" THEN 1 ELSE 2)]_vars

\* C13: for every document state and every character c that is not a tab
\* or a newline, insert_char(c) followed by delete_char returns the text and
\* the cursor to their values before the insert, under LF and under CRLF.
C13_InsertThenDeleteRestores ==
    [][(/\ last_call = "insert_char"
        /\ last_effect[1] \in {"a", "W"}
        /\ last_call' = "delete_char")
          => /\ text' = undo[1]
             /\ cursor_pos' = undo[2]]_vars

\* In a CRLF document, a wide character inserted after a CR LF pair has been
\* deleted again, and the text and the cursor are those before the insert.
C13_Witness ==
    /\ last_call = "delete_char"
    /\ last_effect = <<"W">>
    /\ undo = <<text, cursor_pos>>
    /\ line_ending = "CRLF"
    /\ CrLfBefore(text, cursor_pos)

\* The step is a call at the edge of the document where the call has
\* nothing to do.
AtEdge(call) ==
    \/ call = "move_cursor_left" /\ cursor_pos = 0
    \/ call = "move_cursor_right" /\ cursor_pos = len_chars(text)
    \/ call = "move_cursor_up" /\ cursor_row(text, cursor_pos) = 0
    \/ call = "move_cursor_down"
           /\ cursor_row(text, cursor_pos) = len_lines(text) - 1
    \/ call = "delete_char" /\ cursor_pos = 0

\* C14: left at cursor 0, right at cursor = char_count, up on line 0, down
\* on the last line and delete_char at cursor 0 leave text, cursor and
\* status unchanged.
C14_EdgeCallsChangeNothing ==
    [][AtEdge(last_call') => UNCHANGED <<text, cursor_pos, status>>]_vars

\* delete_char has been called at offset 0 of a modified, non-empty text and
\* removed nothing.
C14_Witness ==
    /\ last_call = "delete_char"
    /\ last_effect = <<>>
    /\ cursor_pos = 0
    /\ Len(text) > 0
    /\ status = "Modified"

\* The characters of the cursor's line before the cursor.
BeforeCursor ==
    SubSeq(text, line_to_char(text, cursor_row(text, cursor_pos)) + 1,
           cursor_pos)

\* C15: visual_cursor_column is the sum, over the characters of the
\* cursor's line before the cursor, of each character's cell width (a tab
\* 8 - (col mod 8), any other character its terminal width); so after k tabs
\* of a line of tabs it is 8 * k, and in "\tX" it is 8 at offset 1 and 9 at
\* offset 2.
C15_VisualColumnIsSumOfCells ==
    LET v == get_visual_cursor_x(text, cursor_pos)
    IN  /\ v = VisualWidth(BeforeCursor)
        /\ (\A i \in 1..Len(BeforeCursor) : BeforeCursor[i] = "TAB")
               => v = 8 * Len(BeforeCursor)
        /\ text = <<"TAB", "a">>
               => v = (CASE cursor_pos = 0 -> 0
                         [] cursor_pos = 1 -> 8
                         [] cursor_pos = 2 -> 9)

\* The cursor has been moved right past a tab, a mark of no width and a wide
\* character, to visual column 10.
C15_Witness ==
    /\ last_call = "move_cursor_right"
    /\ text = <<"TAB", "M", "W">>
    /\ cursor_pos = 3
    /\ get_visual_cursor_x(text, cursor_pos) = 10

\* The startup events of the log, in the order they occurred.
IsStartup(ev) == ev \in {"raw", "alt", "draw", "read"}
StartupEvents == SelectSeq(term_log, IsStartup)

\* C16: in every run the startup events occur in this order: raw mode is
\* enabled, then the alternate screen is entered, then the first frame is
\* drawn, then the first input event is read.
C16_StartupOrder ==
    StartupEvents
        = SubSeq(<<"raw", "alt", "draw", "read">>, 1, Len(StartupEvents))

\* C17: on every exit path both cleanup steps, leaving the alternate
\* screen and disabling raw mode, are executed; the failure of one does not
\* prevent the other from running.
C17_BothCleanupStepsRun ==
    pc = "done" =>
        /\ InLog("leave") \/ InLog("leave_failed")
        /\ InLog("disable") \/ InLog("disable_failed")

\* The step handles one input event other than the quit command.
HandlesEvent ==
    \/ KeyLeft
    \/ KeyRight
    \/ KeyUp
    \/ KeyDown
    \/ KeyChar
    \/ KeyEnter
    \/ KeyBackspace
    \/ KeySave
    \/ Resize
    \/ KeyOther

\* C18: an error raised while handling a single input event never ends the
\* editor loop: the loop goes on to draw the next frame; only the quit
\* command ends it.
C18_HandlerErrorKeepsLoop ==
    [][HandlesEvent => pc' = "display"]_vars

\* The terminal cells the printed characters out take: a wide character 2,
\* a carriage return or a non-spacing mark none, any other character 1.
RECURSIVE RowCells(_)
RowCells(out) ==
    IF out = <<>> THEN 0
    ELSE (IF Head(out) = "W" THEN 2
          ELSE IF Head(out) \in {"CR", "M"} THEN 0
          ELSE 1) + RowCells(Tail(out))

\* A frame has just been drawn.
FrameDrawn == last_call = "display_buffer"

\* C19: line rendering truncates and never wraps: for every line (tabs and
\* wide characters included) and every terminal width, draw_line emits at
\* most width terminal cells for one screen row.
C19_RowWithinWidth ==
    FrameDrawn => \A row \in 1..Len(frame) : RowCells(frame[row]) <= win_width

\* C20: draw_line emits no character at or after the first CR or LF of the
\* line, so a line ending in CR LF gives the same output as the same line
\* ending in LF.
C20_RowStopsAtTerminator ==
    FrameDrawn =>
        \A row \in 1..Len(frame) :
            /\ \A i \in 1..Len(frame[row]) : frame[row][i] \notin {"CR", "LF"}
            /\ frame[row]
                   = draw_line(LineBody(text, scroll_offset + row - 1)
                                   \o <<"LF">>, win_width)

-----------------------------------------------------------------------------
(* C21..C23 *)

\* The scroll_offset of the rule of scroll adjustment, h body rows.
ScrollRule(offset, row, h) ==
    IF row < offset THEN row
    ELSE IF row >= offset + h THEN row - h + 1
    ELSE offset

\* The example: height 5, a document of 20 lines, ten Buffer calls made and
\* the cursor on line 10, so each call was a move_cursor_down from line 0 on.
TenDownsOfTwenty ==
    /\ win_height = 5
    /\ len_lines(text) = 20
    /\ calls = 10
    /\ cursor_row(text, cursor_pos) = 10

\* C21 as claimed: with h = height - 1, display_buffer leaves scroll_offset
\* when scroll_offset <= cursor_row < scroll_offset + h, sets it to
\* cursor_row when cursor_row < scroll_offset and to cursor_row - h + 1 when
\* cursor_row >= scroll_offset + h, for every height; and ten downs from
\* line 0 of 20 lines at height 5 end with scroll_offset = 7.
C21_ScrollRuleAnyHeight ==
    [][Display
          => /\ scroll_offset' = ScrollRule(scroll_offset,
                                            cursor_row(text, cursor_pos),
                                            win_height - 1)
             /\ TenDownsOfTwenty => scroll_offset' = 7]_vars

\* C21 as amended: the same for every height >= 1; for height 0 the body
\* has no rows, as for height 1 (h = 0).
C21_ScrollRule ==
    [][Display
          => /\ scroll_offset' =
                    ScrollRule(scroll_offset, cursor_row(text, cursor_pos),
                               IF win_height >= 1 THEN win_height - 1 ELSE 0)
             /\ TenDownsOfTwenty => scroll_offset' = 7]_vars

\* The frame after the tenth down of the example has been drawn: line 10 is
\* the last body row.
C21_Witness ==
    /\ pc = "events"
    /\ last_call = "display_buffer"
    /\ TenDownsOfTwenty
    /\ scroll_offset = 7

\* The cursor's line is among the rows of the frame, and the cursor is
\* after tabs, narrow and wide characters only, at a column of the terminal.
CursorOnScreen ==
    /\ cursor_row(text, cursor_pos) >= scroll_offset
    /\ cursor_row(text, cursor_pos) < scroll_offset + Len(frame)
    /\ \A i \in 1..Len(BeforeCursor) : BeforeCursor[i] \in {"a", "W", "TAB"}
    /\ get_visual_cursor_x(text, cursor_pos) < win_width

\* C22: for every line of tabs, narrow and wide characters and every cursor
\* index within the terminal width, the column where display_buffer puts
\* the terminal's cursor (the Buffer's visual column) is the column where
\* draw_line draws the character at that index: the cells its output takes
\* for the characters before it.
C22_CursorWhereCharIsDrawn ==
    (FrameDrawn /\ CursorOnScreen)
        => get_visual_cursor_x(text, cursor_pos)
               = RowCells(draw_line(BeforeCursor, win_width))

\* C23: save on a document with no file_path fails with the NoPath error
\* and leaves text, cursor and status as they were.
C23_SaveWithoutPathChangesNothing ==
    [][(last_call' = "save" /\ file_path = "None")
          => /\ last_effect' = <<"NoPath">>
             /\ UNCHANGED <<text, cursor_pos, status>>]_vars

====
